---- MODULE Spec2Model ----
(***************************************************************************)
(* Model of src/main.py: a CSV key/value configuration loader              *)
(* (read_csv_config), its validator (validate_and_normalize), the printer  *)
(* (print_kv) and the driver (main) with its exit codes.                   *)
(*                                                                         *)
(* A Python str is the sequence of its code points (0..1114111), a         *)
(* character is a code point.  Str("abc") writes the str 'abc' and         *)
(* Ord("a") the character 'a'.  A CSV file is the sequence of rows         *)
(* csv.reader yields for it (a blank line yields the empty row <<>>),      *)
(* each row a sequence of cells.  A dict is a function whose domain is     *)
(* its key set.                                                            *)
(***************************************************************************)
EXTENDS Integers, Sequences, FiniteSets, TLC

----------------------------------------------------------------------------
(* Notation for str literals                                               *)

\* The characters of code points 32..95 and 97..126, in order.
AsciiLow == " !\"#$%&'()*+,-./0123456789:;<=>?@ABCDEFGHIJKLMNOPQRSTUVWXYZ[\\]^_"
AsciiHigh == "abcdefghijklmnopqrstuvwxyz{|}~"

OrdTable ==
    [i \in 1..Len(AsciiLow) |-> <<SubSeq(AsciiLow, i, i), i + 31>>]
    \o [i \in 1..Len(AsciiHigh) |-> <<SubSeq(AsciiHigh, i, i), i + 96>>]

OrdMap ==
    [c \in {OrdTable[i][1] : i \in 1..Len(OrdTable)} |->
        OrdTable[CHOOSE i \in 1..Len(OrdTable) : OrdTable[i][1] = c][2]]

\* ord(c) for a character literal
Ord(c) == OrdMap[c]

\* the str written as the literal lit
Str(lit) == [i \in 1..Len(lit) |-> Ord(SubSeq(lit, i, i))]

----------------------------------------------------------------------------
(* Python str primitives used by the program                               *)

Char(s, i) == s[i]

Rest(s, i) == SubSeq(s, i, Len(s))

\* The slice s[:n]
Prefix(s, n) == SubSeq(s, 1, IF n < Len(s) THEN n ELSE Len(s))

HasChar(s, c) == \E i \in 1..Len(s) : s[i] = c

\* str.find(c, start): first index >= start holding c, 0 when there is none
\* (indices are 1-based here, so Python's -1 is 0).
Find(s, c, start) ==
    IF \E i \in start..Len(s) : s[i] = c
    THEN CHOOSE i \in start..Len(s) :
             s[i] = c /\ \A j \in start..(i - 1) : s[j] # c
    ELSE 0

\* str.rfind(c): last index holding c, 0 when there is none.
RFind(s, c) ==
    IF HasChar(s, c)
    THEN CHOOSE i \in 1..Len(s) :
             s[i] = c /\ \A j \in (i + 1)..Len(s) : s[j] # c
    ELSE 0

\* The characters with str.isspace(): \t \n \v \f \r, FS GS RS US, the
\* space, NEL, the no-break space and the space separators of Unicode.
Whitespace ==
    {9, 10, 11, 12, 13, 28, 29, 30, 31, 32, 133, 160, 5760}
    \cup (8192..8202) \cup {8232, 8233, 8239, 8287, 12288}

\* str.lstrip(chars): s from its first character outside chars
lstripOf(s, chars) ==
    IF \A i \in 1..Len(s) : s[i] \in chars THEN <<>>
    ELSE Rest(s, CHOOSE i \in 1..Len(s) :
                     s[i] \notin chars /\ \A j \in 1..(i - 1) : s[j] \in chars)

\* str.rstrip(chars): s up to its last character outside chars
rstripOf(s, chars) ==
    IF \A i \in 1..Len(s) : s[i] \in chars THEN <<>>
    ELSE SubSeq(s, 1, CHOOSE i \in 1..Len(s) :
                          s[i] \notin chars /\ \A j \in (i + 1)..Len(s) : s[j] \in chars)

\* str.lstrip()
lstrip(s) == lstripOf(s, Whitespace)

\* str.rstrip()
rstrip(s) == rstripOf(s, Whitespace)

\* str.strip()
strip(s) == rstrip(lstrip(s))

----------------------------------------------------------------------------
(* The tables of the Unicode Character Database behind str.lower(), int()  *)
(* and urlsplit                                                            *)

\* The simple lower-case mappings of the Unicode Character Database (14.0):
\* <<lo, hi, step, delta>> maps every step-th code point c of lo..hi to
\* c + delta.
LowerRuns ==
    { <<65, 90, 1, 32>>, <<192, 214, 1, 32>>, <<216, 222, 1, 32>>,
      <<256, 302, 2, 1>>, <<306, 310, 2, 1>>, <<313, 327, 2, 1>>,
      <<330, 374, 2, 1>>, <<376, 376, 1, -121>>, <<377, 381, 2, 1>>,
      <<385, 385, 1, 210>>, <<386, 388, 2, 1>>, <<390, 390, 1, 206>>,
      <<391, 391, 1, 1>>, <<393, 394, 1, 205>>, <<395, 395, 1, 1>>,
      <<398, 398, 1, 79>>, <<399, 399, 1, 202>>, <<400, 400, 1, 203>>,
      <<401, 401, 1, 1>>, <<403, 403, 1, 205>>, <<404, 404, 1, 207>>,
      <<406, 406, 1, 211>>, <<407, 407, 1, 209>>, <<408, 408, 1, 1>>,
      <<412, 412, 1, 211>>, <<413, 413, 1, 213>>, <<415, 415, 1, 214>>,
      <<416, 420, 2, 1>>, <<422, 422, 1, 218>>, <<423, 423, 1, 1>>,
      <<425, 425, 1, 218>>, <<428, 428, 1, 1>>, <<430, 430, 1, 218>>,
      <<431, 431, 1, 1>>, <<433, 434, 1, 217>>, <<435, 437, 2, 1>>,
      <<439, 439, 1, 219>>, <<440, 440, 1, 1>>, <<444, 444, 1, 1>>,
      <<452, 452, 1, 2>>, <<453, 453, 1, 1>>, <<455, 455, 1, 2>>,
      <<456, 456, 1, 1>>, <<458, 458, 1, 2>>, <<459, 475, 2, 1>>,
      <<478, 494, 2, 1>>, <<497, 497, 1, 2>>, <<498, 500, 2, 1>>,
      <<502, 502, 1, -97>>, <<503, 503, 1, -56>>, <<504, 542, 2, 1>>,
      <<544, 544, 1, -130>>, <<546, 562, 2, 1>>, <<570, 570, 1, 10795>>,
      <<571, 571, 1, 1>>, <<573, 573, 1, -163>>, <<574, 574, 1, 10792>>,
      <<577, 577, 1, 1>>, <<579, 579, 1, -195>>, <<580, 580, 1, 69>>,
      <<581, 581, 1, 71>>, <<582, 590, 2, 1>>, <<880, 882, 2, 1>>,
      <<886, 886, 1, 1>>, <<895, 895, 1, 116>>, <<902, 902, 1, 38>>,
      <<904, 906, 1, 37>>, <<908, 908, 1, 64>>, <<910, 911, 1, 63>>,
      <<913, 929, 1, 32>>, <<932, 939, 1, 32>>, <<975, 975, 1, 8>>,
      <<984, 1006, 2, 1>>, <<1012, 1012, 1, -60>>, <<1015, 1015, 1, 1>>,
      <<1017, 1017, 1, -7>>, <<1018, 1018, 1, 1>>, <<1021, 1023, 1, -130>>,
      <<1024, 1039, 1, 80>>, <<1040, 1071, 1, 32>>, <<1120, 1152, 2, 1>>,
      <<1162, 1214, 2, 1>>, <<1216, 1216, 1, 15>>, <<1217, 1229, 2, 1>>,
      <<1232, 1326, 2, 1>>, <<1329, 1366, 1, 48>>, <<4256, 4293, 1, 7264>>,
      <<4295, 4295, 1, 7264>>, <<4301, 4301, 1, 7264>>,
      <<5024, 5103, 1, 38864>>, <<5104, 5109, 1, 8>>,
      <<7312, 7354, 1, -3008>>, <<7357, 7359, 1, -3008>>,
      <<7680, 7828, 2, 1>>, <<7838, 7838, 1, -7615>>, <<7840, 7934, 2, 1>>,
      <<7944, 7951, 1, -8>>, <<7960, 7965, 1, -8>>, <<7976, 7983, 1, -8>>,
      <<7992, 7999, 1, -8>>, <<8008, 8013, 1, -8>>, <<8025, 8031, 2, -8>>,
      <<8040, 8047, 1, -8>>, <<8072, 8079, 1, -8>>, <<8088, 8095, 1, -8>>,
      <<8104, 8111, 1, -8>>, <<8120, 8121, 1, -8>>, <<8122, 8123, 1, -74>>,
      <<8124, 8124, 1, -9>>, <<8136, 8139, 1, -86>>, <<8140, 8140, 1, -9>>,
      <<8152, 8153, 1, -8>>, <<8154, 8155, 1, -100>>, <<8168, 8169, 1, -8>>,
      <<8170, 8171, 1, -112>>, <<8172, 8172, 1, -7>>, <<8184, 8185, 1, -128>>,
      <<8186, 8187, 1, -126>>, <<8188, 8188, 1, -9>>,
      <<8486, 8486, 1, -7517>>, <<8490, 8490, 1, -8383>>,
      <<8491, 8491, 1, -8262>>, <<8498, 8498, 1, 28>>, <<8544, 8559, 1, 16>>,
      <<8579, 8579, 1, 1>>, <<9398, 9423, 1, 26>>, <<11264, 11311, 1, 48>>,
      <<11360, 11360, 1, 1>>, <<11362, 11362, 1, -10743>>,
      <<11363, 11363, 1, -3814>>, <<11364, 11364, 1, -10727>>,
      <<11367, 11371, 2, 1>>, <<11373, 11373, 1, -10780>>,
      <<11374, 11374, 1, -10749>>, <<11375, 11375, 1, -10783>>,
      <<11376, 11376, 1, -10782>>, <<11378, 11378, 1, 1>>,
      <<11381, 11381, 1, 1>>, <<11390, 11391, 1, -10815>>,
      <<11392, 11490, 2, 1>>, <<11499, 11501, 2, 1>>, <<11506, 11506, 1, 1>>,
      <<42560, 42604, 2, 1>>, <<42624, 42650, 2, 1>>, <<42786, 42798, 2, 1>>,
      <<42802, 42862, 2, 1>>, <<42873, 42875, 2, 1>>,
      <<42877, 42877, 1, -35332>>, <<42878, 42886, 2, 1>>,
      <<42891, 42891, 1, 1>>, <<42893, 42893, 1, -42280>>,
      <<42896, 42898, 2, 1>>, <<42902, 42920, 2, 1>>,
      <<42922, 42922, 1, -42308>>, <<42923, 42923, 1, -42319>>,
      <<42924, 42924, 1, -42315>>, <<42925, 42925, 1, -42305>>,
      <<42926, 42926, 1, -42308>>, <<42928, 42928, 1, -42258>>,
      <<42929, 42929, 1, -42282>>, <<42930, 42930, 1, -42261>>,
      <<42931, 42931, 1, 928>>, <<42932, 42946, 2, 1>>,
      <<42948, 42948, 1, -48>>, <<42949, 42949, 1, -42307>>,
      <<42950, 42950, 1, -35384>>, <<42951, 42953, 2, 1>>,
      <<42960, 42960, 1, 1>>, <<42966, 42968, 2, 1>>, <<42997, 42997, 1, 1>>,
      <<65313, 65338, 1, 32>>, <<66560, 66599, 1, 40>>,
      <<66736, 66771, 1, 40>>, <<66928, 66938, 1, 39>>,
      <<66940, 66954, 1, 39>>, <<66956, 66962, 1, 39>>,
      <<66964, 66965, 1, 39>>, <<68736, 68786, 1, 64>>,
      <<71840, 71871, 1, 32>>, <<93760, 93791, 1, 32>>,
      <<125184, 125217, 1, 34>> }

\* The ranges <<lo, hi>> of the code points with the property Cased.
CasedRanges ==
    { <<65, 90>>, <<97, 122>>, <<170, 170>>, <<181, 181>>, <<186, 186>>,
      <<192, 214>>, <<216, 246>>, <<248, 442>>, <<444, 447>>, <<452, 659>>,
      <<661, 696>>, <<704, 705>>, <<736, 740>>, <<837, 837>>, <<880, 883>>,
      <<886, 887>>, <<890, 893>>, <<895, 895>>, <<902, 902>>, <<904, 906>>,
      <<908, 908>>, <<910, 929>>, <<931, 1013>>, <<1015, 1153>>,
      <<1162, 1327>>, <<1329, 1366>>, <<1376, 1416>>, <<4256, 4293>>,
      <<4295, 4295>>, <<4301, 4301>>, <<4304, 4346>>, <<4349, 4351>>,
      <<5024, 5109>>, <<5112, 5117>>, <<7296, 7304>>, <<7312, 7354>>,
      <<7357, 7359>>, <<7424, 7615>>, <<7680, 7957>>, <<7960, 7965>>,
      <<7968, 8005>>, <<8008, 8013>>, <<8016, 8023>>, <<8025, 8025>>,
      <<8027, 8027>>, <<8029, 8029>>, <<8031, 8061>>, <<8064, 8116>>,
      <<8118, 8124>>, <<8126, 8126>>, <<8130, 8132>>, <<8134, 8140>>,
      <<8144, 8147>>, <<8150, 8155>>, <<8160, 8172>>, <<8178, 8180>>,
      <<8182, 8188>>, <<8305, 8305>>, <<8319, 8319>>, <<8336, 8348>>,
      <<8450, 8450>>, <<8455, 8455>>, <<8458, 8467>>, <<8469, 8469>>,
      <<8473, 8477>>, <<8484, 8484>>, <<8486, 8486>>, <<8488, 8488>>,
      <<8490, 8493>>, <<8495, 8500>>, <<8505, 8505>>, <<8508, 8511>>,
      <<8517, 8521>>, <<8526, 8526>>, <<8544, 8575>>, <<8579, 8580>>,
      <<9398, 9449>>, <<11264, 11492>>, <<11499, 11502>>, <<11506, 11507>>,
      <<11520, 11557>>, <<11559, 11559>>, <<11565, 11565>>, <<42560, 42605>>,
      <<42624, 42653>>, <<42786, 42887>>, <<42891, 42894>>, <<42896, 42954>>,
      <<42960, 42961>>, <<42963, 42963>>, <<42965, 42969>>, <<42997, 42998>>,
      <<43000, 43002>>, <<43824, 43866>>, <<43868, 43880>>, <<43888, 43967>>,
      <<64256, 64262>>, <<64275, 64279>>, <<65313, 65338>>, <<65345, 65370>>,
      <<66560, 66639>>, <<66736, 66771>>, <<66776, 66811>>, <<66928, 66938>>,
      <<66940, 66954>>, <<66956, 66962>>, <<66964, 66965>>, <<66967, 66977>>,
      <<66979, 66993>>, <<66995, 67001>>, <<67003, 67004>>, <<67456, 67456>>,
      <<67459, 67461>>, <<67463, 67504>>, <<67506, 67514>>, <<68736, 68786>>,
      <<68800, 68850>>, <<71840, 71903>>, <<93760, 93823>>,
      <<119808, 119892>>, <<119894, 119964>>, <<119966, 119967>>,
      <<119970, 119970>>, <<119973, 119974>>, <<119977, 119980>>,
      <<119982, 119993>>, <<119995, 119995>>, <<119997, 120003>>,
      <<120005, 120069>>, <<120071, 120074>>, <<120077, 120084>>,
      <<120086, 120092>>, <<120094, 120121>>, <<120123, 120126>>,
      <<120128, 120132>>, <<120134, 120134>>, <<120138, 120144>>,
      <<120146, 120485>>, <<120488, 120512>>, <<120514, 120538>>,
      <<120540, 120570>>, <<120572, 120596>>, <<120598, 120628>>,
      <<120630, 120654>>, <<120656, 120686>>, <<120688, 120712>>,
      <<120714, 120744>>, <<120746, 120770>>, <<120772, 120779>>,
      <<122624, 122633>>, <<122635, 122654>>, <<125184, 125251>>,
      <<127280, 127305>>, <<127312, 127337>>, <<127344, 127369>> }

\* The ranges <<lo, hi>> of the code points with the property Case_Ignorable.
CaseIgnorableRanges ==
    { <<39, 39>>, <<46, 46>>, <<58, 58>>, <<94, 94>>, <<96, 96>>,
      <<168, 168>>, <<173, 173>>, <<175, 175>>, <<180, 180>>, <<183, 184>>,
      <<688, 879>>, <<884, 885>>, <<890, 890>>, <<900, 901>>, <<903, 903>>,
      <<1155, 1161>>, <<1369, 1369>>, <<1375, 1375>>, <<1425, 1469>>,
      <<1471, 1471>>, <<1473, 1474>>, <<1476, 1477>>, <<1479, 1479>>,
      <<1524, 1524>>, <<1536, 1541>>, <<1552, 1562>>, <<1564, 1564>>,
      <<1600, 1600>>, <<1611, 1631>>, <<1648, 1648>>, <<1750, 1757>>,
      <<1759, 1768>>, <<1770, 1773>>, <<1807, 1807>>, <<1809, 1809>>,
      <<1840, 1866>>, <<1958, 1968>>, <<2027, 2037>>, <<2042, 2042>>,
      <<2045, 2045>>, <<2070, 2093>>, <<2137, 2139>>, <<2184, 2184>>,
      <<2192, 2193>>, <<2200, 2207>>, <<2249, 2306>>, <<2362, 2362>>,
      <<2364, 2364>>, <<2369, 2376>>, <<2381, 2381>>, <<2385, 2391>>,
      <<2402, 2403>>, <<2417, 2417>>, <<2433, 2433>>, <<2492, 2492>>,
      <<2497, 2500>>, <<2509, 2509>>, <<2530, 2531>>, <<2558, 2558>>,
      <<2561, 2562>>, <<2620, 2620>>, <<2625, 2626>>, <<2631, 2632>>,
      <<2635, 2637>>, <<2641, 2641>>, <<2672, 2673>>, <<2677, 2677>>,
      <<2689, 2690>>, <<2748, 2748>>, <<2753, 2757>>, <<2759, 2760>>,
      <<2765, 2765>>, <<2786, 2787>>, <<2810, 2815>>, <<2817, 2817>>,
      <<2876, 2876>>, <<2879, 2879>>, <<2881, 2884>>, <<2893, 2893>>,
      <<2901, 2902>>, <<2914, 2915>>, <<2946, 2946>>, <<3008, 3008>>,
      <<3021, 3021>>, <<3072, 3072>>, <<3076, 3076>>, <<3132, 3132>>,
      <<3134, 3136>>, <<3142, 3144>>, <<3146, 3149>>, <<3157, 3158>>,
      <<3170, 3171>>, <<3201, 3201>>, <<3260, 3260>>, <<3263, 3263>>,
      <<3270, 3270>>, <<3276, 3277>>, <<3298, 3299>>, <<3328, 3329>>,
      <<3387, 3388>>, <<3393, 3396>>, <<3405, 3405>>, <<3426, 3427>>,
      <<3457, 3457>>, <<3530, 3530>>, <<3538, 3540>>, <<3542, 3542>>,
      <<3633, 3633>>, <<3636, 3642>>, <<3654, 3662>>, <<3761, 3761>>,
      <<3764, 3772>>, <<3782, 3782>>, <<3784, 3789>>, <<3864, 3865>>,
      <<3893, 3893>>, <<3895, 3895>>, <<3897, 3897>>, <<3953, 3966>>,
      <<3968, 3972>>, <<3974, 3975>>, <<3981, 3991>>, <<3993, 4028>>,
      <<4038, 4038>>, <<4141, 4144>>, <<4146, 4151>>, <<4153, 4154>>,
      <<4157, 4158>>, <<4184, 4185>>, <<4190, 4192>>, <<4209, 4212>>,
      <<4226, 4226>>, <<4229, 4230>>, <<4237, 4237>>, <<4253, 4253>>,
      <<4348, 4348>>, <<4957, 4959>>, <<5906, 5908>>, <<5938, 5939>>,
      <<5970, 5971>>, <<6002, 6003>>, <<6068, 6069>>, <<6071, 6077>>,
      <<6086, 6086>>, <<6089, 6099>>, <<6103, 6103>>, <<6109, 6109>>,
      <<6155, 6159>>, <<6211, 6211>>, <<6277, 6278>>, <<6313, 6313>>,
      <<6432, 6434>>, <<6439, 6440>>, <<6450, 6450>>, <<6457, 6459>>,
      <<6679, 6680>>, <<6683, 6683>>, <<6742, 6742>>, <<6744, 6750>>,
      <<6752, 6752>>, <<6754, 6754>>, <<6757, 6764>>, <<6771, 6780>>,
      <<6783, 6783>>, <<6823, 6823>>, <<6832, 6862>>, <<6912, 6915>>,
      <<6964, 6964>>, <<6966, 6970>>, <<6972, 6972>>, <<6978, 6978>>,
      <<7019, 7027>>, <<7040, 7041>>, <<7074, 7077>>, <<7080, 7081>>,
      <<7083, 7085>>, <<7142, 7142>>, <<7144, 7145>>, <<7149, 7149>>,
      <<7151, 7153>>, <<7212, 7219>>, <<7222, 7223>>, <<7288, 7293>>,
      <<7376, 7378>>, <<7380, 7392>>, <<7394, 7400>>, <<7405, 7405>>,
      <<7412, 7412>>, <<7416, 7417>>, <<7468, 7530>>, <<7544, 7544>>,
      <<7579, 7679>>, <<8125, 8125>>, <<8127, 8129>>, <<8141, 8143>>,
      <<8157, 8159>>, <<8173, 8175>>, <<8189, 8190>>, <<8203, 8207>>,
      <<8216, 8217>>, <<8228, 8228>>, <<8231, 8231>>, <<8234, 8238>>,
      <<8288, 8292>>, <<8294, 8303>>, <<8305, 8305>>, <<8319, 8319>>,
      <<8336, 8348>>, <<8400, 8432>>, <<11388, 11389>>, <<11503, 11505>>,
      <<11631, 11631>>, <<11647, 11647>>, <<11744, 11775>>, <<11823, 11823>>,
      <<12293, 12293>>, <<12330, 12333>>, <<12337, 12341>>, <<12347, 12347>>,
      <<12441, 12446>>, <<12540, 12542>>, <<40981, 40981>>, <<42232, 42237>>,
      <<42508, 42508>>, <<42607, 42610>>, <<42612, 42621>>, <<42623, 42623>>,
      <<42652, 42655>>, <<42736, 42737>>, <<42752, 42785>>, <<42864, 42864>>,
      <<42888, 42890>>, <<42994, 42996>>, <<43000, 43001>>, <<43010, 43010>>,
      <<43014, 43014>>, <<43019, 43019>>, <<43045, 43046>>, <<43052, 43052>>,
      <<43204, 43205>>, <<43232, 43249>>, <<43263, 43263>>, <<43302, 43309>>,
      <<43335, 43345>>, <<43392, 43394>>, <<43443, 43443>>, <<43446, 43449>>,
      <<43452, 43453>>, <<43471, 43471>>, <<43493, 43494>>, <<43561, 43566>>,
      <<43569, 43570>>, <<43573, 43574>>, <<43587, 43587>>, <<43596, 43596>>,
      <<43632, 43632>>, <<43644, 43644>>, <<43696, 43696>>, <<43698, 43700>>,
      <<43703, 43704>>, <<43710, 43711>>, <<43713, 43713>>, <<43741, 43741>>,
      <<43756, 43757>>, <<43763, 43764>>, <<43766, 43766>>, <<43867, 43871>>,
      <<43881, 43883>>, <<44005, 44005>>, <<44008, 44008>>, <<44013, 44013>>,
      <<64286, 64286>>, <<64434, 64450>>, <<65024, 65039>>, <<65043, 65043>>,
      <<65056, 65071>>, <<65106, 65106>>, <<65109, 65109>>, <<65279, 65279>>,
      <<65287, 65287>>, <<65294, 65294>>, <<65306, 65306>>, <<65342, 65342>>,
      <<65344, 65344>>, <<65392, 65392>>, <<65438, 65439>>, <<65507, 65507>>,
      <<65529, 65531>>, <<66045, 66045>>, <<66272, 66272>>, <<66422, 66426>>,
      <<67456, 67461>>, <<67463, 67504>>, <<67506, 67514>>, <<68097, 68099>>,
      <<68101, 68102>>, <<68108, 68111>>, <<68152, 68154>>, <<68159, 68159>>,
      <<68325, 68326>>, <<68900, 68903>>, <<69291, 69292>>, <<69446, 69456>>,
      <<69506, 69509>>, <<69633, 69633>>, <<69688, 69702>>, <<69744, 69744>>,
      <<69747, 69748>>, <<69759, 69761>>, <<69811, 69814>>, <<69817, 69818>>,
      <<69821, 69821>>, <<69826, 69826>>, <<69837, 69837>>, <<69888, 69890>>,
      <<69927, 69931>>, <<69933, 69940>>, <<70003, 70003>>, <<70016, 70017>>,
      <<70070, 70078>>, <<70089, 70092>>, <<70095, 70095>>, <<70191, 70193>>,
      <<70196, 70196>>, <<70198, 70199>>, <<70206, 70206>>, <<70367, 70367>>,
      <<70371, 70378>>, <<70400, 70401>>, <<70459, 70460>>, <<70464, 70464>>,
      <<70502, 70508>>, <<70512, 70516>>, <<70712, 70719>>, <<70722, 70724>>,
      <<70726, 70726>>, <<70750, 70750>>, <<70835, 70840>>, <<70842, 70842>>,
      <<70847, 70848>>, <<70850, 70851>>, <<71090, 71093>>, <<71100, 71101>>,
      <<71103, 71104>>, <<71132, 71133>>, <<71219, 71226>>, <<71229, 71229>>,
      <<71231, 71232>>, <<71339, 71339>>, <<71341, 71341>>, <<71344, 71349>>,
      <<71351, 71351>>, <<71453, 71455>>, <<71458, 71461>>, <<71463, 71467>>,
      <<71727, 71735>>, <<71737, 71738>>, <<71995, 71996>>, <<71998, 71998>>,
      <<72003, 72003>>, <<72148, 72151>>, <<72154, 72155>>, <<72160, 72160>>,
      <<72193, 72202>>, <<72243, 72248>>, <<72251, 72254>>, <<72263, 72263>>,
      <<72273, 72278>>, <<72281, 72283>>, <<72330, 72342>>, <<72344, 72345>>,
      <<72752, 72758>>, <<72760, 72765>>, <<72767, 72767>>, <<72850, 72871>>,
      <<72874, 72880>>, <<72882, 72883>>, <<72885, 72886>>, <<73009, 73014>>,
      <<73018, 73018>>, <<73020, 73021>>, <<73023, 73029>>, <<73031, 73031>>,
      <<73104, 73105>>, <<73109, 73109>>, <<73111, 73111>>, <<73459, 73460>>,
      <<78896, 78904>>, <<92912, 92916>>, <<92976, 92982>>, <<92992, 92995>>,
      <<94031, 94031>>, <<94095, 94111>>, <<94176, 94177>>, <<94179, 94180>>,
      <<110576, 110579>>, <<110581, 110587>>, <<110589, 110590>>,
      <<113821, 113822>>, <<113824, 113827>>, <<118528, 118573>>,
      <<118576, 118598>>, <<119143, 119145>>, <<119155, 119170>>,
      <<119173, 119179>>, <<119210, 119213>>, <<119362, 119364>>,
      <<121344, 121398>>, <<121403, 121452>>, <<121461, 121461>>,
      <<121476, 121476>>, <<121499, 121503>>, <<121505, 121519>>,
      <<122880, 122886>>, <<122888, 122904>>, <<122907, 122913>>,
      <<122915, 122916>>, <<122918, 122922>>, <<123184, 123197>>,
      <<123566, 123566>>, <<123628, 123631>>, <<125136, 125142>>,
      <<125252, 125259>>, <<127995, 127999>>, <<917505, 917505>>,
      <<917536, 917631>>, <<917760, 917999>> }

\* The code points of the decimal digits zero of Unicode; the digits one to
\* nine of a script follow its zero.
DecimalZeros ==
    { 48, 1632, 1776, 1984, 2406, 2534, 2662, 2790, 2918, 3046, 3174, 3302,
      3430, 3558, 3664, 3792, 3872, 4160, 4240, 6112, 6160, 6470, 6608, 6784,
      6800, 6992, 7088, 7232, 7248, 42528, 43216, 43264, 43472, 43504, 43600,
      44016, 65296, 66720, 68912, 69734, 69872, 69942, 70096, 70384, 70736,
      70864, 71248, 71360, 71472, 71904, 72016, 72784, 73040, 73120, 92768,
      92864, 93008, 120782, 120792, 120802, 120812, 120822, 123200, 123632,
      125264, 130032 }

\* The code points beyond ASCII whose NFKC normal form holds one of the
\* characters / ? # @ :
NetlocUnsafe ==
    { 8263, 8264, 8265, 8448, 8449, 8453, 8454, 10868, 65043, 65046, 65109,
      65110, 65119, 65131, 65283, 65295, 65306, 65311, 65312 }

----------------------------------------------------------------------------
(* str.lower(), order, sorted, split, join, str(int)                       *)

InRanges(c, ranges) == \E r \in ranges : r[1] <= c /\ c <= r[2]

\* _PyUnicode_IsCased
IsCased(c) == InRanges(c, CasedRanges)

\* _PyUnicode_IsCaseIgnorable
IsCaseIgnorable(c) == InRanges(c, CaseIgnorableRanges)

InRun(c, r) == r[1] <= c /\ c <= r[2] /\ (c - r[1]) % r[3] = 0

\* _PyUnicode_ToLowerFull: the lower-case form of one character; only
\* U+0130 has a form of two characters
ToLowerFull(c) ==
    IF c = 304 THEN <<105, 775>>
    ELSE IF \E r \in LowerRuns : InRun(c, r)
    THEN <<c + (CHOOSE r \in LowerRuns : InRun(c, r))[4]>>
    ELSE <<c>>

\* handle_capital_sigma: U+03A3 at index i becomes the final sigma U+03C2
\* when a cased character precedes it and none follows it, characters that
\* are case-ignorable being skipped on both sides, and U+03C3 otherwise
handle_capital_sigma(s, i) ==
    LET before == {j \in 1..(i - 1) : ~IsCaseIgnorable(s[j])}
        after  == {j \in (i + 1)..Len(s) : ~IsCaseIgnorable(s[j])}
    IN  IF /\ before # {}
           /\ IsCased(s[CHOOSE j \in before : \A k \in before : k <= j])
           /\ \/ after = {}
              \/ ~IsCased(s[CHOOSE j \in after : \A k \in after : j <= k])
        THEN 962
        ELSE 963

\* lower_ucs4: the lower-case form of the character at index i
lower_ucs4(s, i) ==
    IF s[i] = 931 THEN <<handle_capital_sigma(s, i)>> ELSE ToLowerFull(s[i])

\* do_lower: the lower-case forms of the characters lo..hi of s, in order
RECURSIVE do_lower(_, _, _)
do_lower(s, lo, hi) ==
    IF lo > hi THEN <<>>
    ELSE IF lo = hi THEN lower_ucs4(s, lo)
    ELSE do_lower(s, lo, (lo + hi) \div 2) \o do_lower(s, (lo + hi) \div 2 + 1, hi)

\* Py_TOLOWER on an ASCII character
lowerChar(c) == IF c \in 65..90 THEN c + 32 ELSE c

\* str.lower(): the ASCII letters for an ASCII str, the Unicode lower-case
\* mapping otherwise
lower(s) ==
    IF \A i \in 1..Len(s) : s[i] < 128
    THEN [i \in 1..Len(s) |-> lowerChar(s[i])]
    ELSE do_lower(s, 1, Len(s))

\* The order < of Python on str: lexicographic by code point.
StrLess(a, b) ==
    LET n == IF Len(a) < Len(b) THEN Len(a) ELSE Len(b)
    IN  IF \A i \in 1..n : a[i] = b[i] THEN Len(a) < Len(b)
        ELSE LET d == CHOOSE i \in 1..n :
                          a[i] # b[i] /\ \A j \in 1..(i - 1) : a[j] = b[j]
             IN  a[d] < b[d]

\* sorted with the comparison reversed
RECURSIVE sorted_descending(_)
sorted_descending(S) ==
    IF S = {} THEN <<>>
    ELSE LET m == CHOOSE x \in S : \A y \in S \ {x} : StrLess(y, x)
         IN  <<m>> \o sorted_descending(S \ {m})

\* sorted(S) for a set of strings.
RECURSIVE sorted(_)
sorted(S) ==
    IF S = {} THEN <<>>
    ELSE LET m == CHOOSE x \in S : \A y \in S \ {x} : StrLess(x, y)
         IN  <<m>> \o sorted(S \ {m})

\* str.split(sep) for a one-character separator.
split(s, sep) ==
    LET seps == SelectSeq([i \in 1..Len(s) |-> i], LAMBDA i : s[i] = sep)
        cuts == <<0>> \o seps \o <<Len(s) + 1>>
    IN  [k \in 1..(Len(seps) + 1) |-> SubSeq(s, cuts[k] + 1, cuts[k + 1] - 1)]

\* the parts lo..hi joined with sep
RECURSIVE JoinRange(_, _, _, _)
JoinRange(sep, parts, lo, hi) ==
    IF lo = hi THEN parts[lo]
    ELSE JoinRange(sep, parts, lo, (lo + hi) \div 2)
         \o sep \o JoinRange(sep, parts, (lo + hi) \div 2 + 1, hi)

\* sep.join(parts)
join(sep, parts) ==
    IF parts = <<>> THEN <<>> ELSE JoinRange(sep, parts, 1, Len(parts))

\* str(n) for an int.
RECURSIVE NatToStr(_)
NatToStr(n) ==
    IF n < 10 THEN <<48 + n>>
    ELSE NatToStr(n \div 10) \o <<48 + (n % 10)>>

IntToStr(n) == IF n < 0 THEN Str("-") \o NatToStr(-n) ELSE NatToStr(n)

----------------------------------------------------------------------------
(* int(str).  The text is first brought to ASCII: a Unicode space becomes  *)
(* a blank and a Unicode decimal digit its ASCII digit.  Then blanks are   *)
(* dropped at both ends, and what is left must be an optional sign and     *)
(* digits with single underscores between digits, at most                  *)
(* int_max_str_digits digits.                                              *)

\* Py_UNICODE_TODECIMAL: the value of a decimal digit, -1 for other
\* characters
DigitVal(c) ==
    IF \E z \in DecimalZeros : z <= c /\ c <= z + 9
    THEN c - (CHOOSE z \in DecimalZeros : z <= c /\ c <= z + 9)
    ELSE 0 - 1

IsDigit(c) == DigitVal(c) >= 0

\* _PyUnicode_TransformDecimalAndSpaceToASCII: the text ends with a '?' at
\* the first character beyond ASCII that is neither a space nor a digit
TransformDecimalAndSpaceToASCII(s) ==
    LET bad == {i \in 1..Len(s) :
                   s[i] >= 127 /\ s[i] \notin Whitespace /\ ~IsDigit(s[i])}
        n   == IF bad = {} THEN Len(s)
               ELSE CHOOSE i \in bad : \A j \in bad : i <= j
    IN  [i \in 1..n |->
            IF s[i] < 127 THEN s[i]
            ELSE IF s[i] \in Whitespace THEN 32
            ELSE IF IsDigit(s[i]) THEN 48 + DigitVal(s[i])
            ELSE 63]

\* Py_ISSPACE
CSpace == {9, 10, 11, 12, 13, 32}

\* the text int() parses: brought to ASCII, without the blanks at its ends
IntText(s) ==
    rstripOf(lstripOf(TransformDecimalAndSpaceToASCII(s), CSpace), CSpace)

\* digits with single '_' separators allowed between two digits
IsDigitGroup(s) ==
    /\ Len(s) > 0
    /\ \A i \in 1..Len(s) :
          \/ IsDigit(s[i])
          \/ /\ s[i] = Ord("_")
             /\ 1 < i /\ i < Len(s)
             /\ IsDigit(s[i - 1]) /\ IsDigit(s[i + 1])

RECURSIVE DigitsValue(_, _)
DigitsValue(s, acc) ==
    IF s = <<>> THEN acc
    ELSE IF s[1] = Ord("_") THEN DigitsValue(Rest(s, 2), acc)
    ELSE DigitsValue(Rest(s, 2), 10 * acc + DigitVal(s[1]))

IntBody(s) ==
    IF Len(s) > 0 /\ s[1] \in {Ord("+"), Ord("-")} THEN Rest(s, 2) ELSE s

\* sys.get_int_max_str_digits(): int() refuses a literal with more digits
int_max_str_digits == 4300

DigitCount(s) == Cardinality({i \in 1..Len(s) : IsDigit(s[i])})

\* TRUE when int(s) returns, FALSE when it raises ValueError
IntParses(s) ==
    /\ IsDigitGroup(IntBody(IntText(s)))
    /\ DigitCount(IntText(s)) <= int_max_str_digits

IntValue(s) ==
    IF Len(IntText(s)) > 0 /\ IntText(s)[1] = Ord("-")
    THEN 0 - DigitsValue(IntBody(IntText(s)), 0)
    ELSE DigitsValue(IntBody(IntText(s)), 0)

----------------------------------------------------------------------------
(* The file system the program looks at: a working directory, the set of   *)
(* directories, the set of regular files and the symbolic links (a         *)
(* function from the link to its target text).  Entries are named by their *)
(* canonical absolute paths.                                               *)

NoEntry == <<>>

\* the longest path the kernel takes, its terminating NUL included
PATH_MAX == 4096

\* the number of symbolic links the kernel follows in one resolution
MAXSYMLINKS == 40

\* os.fsencode(p) succeeds: no NUL (ValueError: embedded null byte) and no
\* surrogate other than the escapes U+DC80..U+DCFF (UnicodeEncodeError)
FsEncodable(p) ==
    \A i \in 1..Len(p) :
        p[i] # 0 /\ (p[i] \in 55296..57343 => p[i] \in 56448..56575)

\* the number of bytes of os.fsencode(p)
Utf8Len(p) ==
    Len(p)
    + Cardinality({i \in 1..Len(p) : p[i] >= 128 /\ p[i] \notin 56448..56575})
    + Cardinality({i \in 1..Len(p) : p[i] >= 2048 /\ p[i] \notin 56448..56575})
    + Cardinality({i \in 1..Len(p) : p[i] >= 65536})

Child(cur, name) ==
    IF cur = Str("/") THEN cur \o name ELSE cur \o Str("/") \o name

Parent(cur) ==
    LET i == RFind(cur, Ord("/"))
    IN  IF i <= 1 THEN Str("/") ELSE SubSeq(cur, 1, i - 1)

\* A resolution in progress is [at, left, comps, i]: the entry reached
\* (NoEntry once it has failed), the number of links it may still follow,
\* the components to take and the index of the next one.
Failed(st) == [st EXCEPT !.at = NoEntry]

Done(st) == st.at = NoEntry \/ st.i > Len(st.comps)

\* One step of path resolution as the kernel does it for stat(): the next
\* component is taken from the entry st.at, which must be a directory.  An
\* empty component and "." stay, ".." goes to the parent, a name goes to the
\* child of that name, and a child that is a symbolic link puts the
\* components of its target before those that remain (to be taken from the
\* root when the target is absolute, from the directory of the link
\* otherwise).
WalkStep(fsys, st) ==
    LET c    == st.comps[st.i]
        next == [st EXCEPT !.i = @ + 1]
    IN  IF st.at \notin fsys.dirs THEN Failed(st)
        ELSE IF c \in {<<>>, Str(".")} THEN next
        ELSE IF c = Str("..") THEN [next EXCEPT !.at = Parent(st.at)]
        ELSE IF Child(st.at, c) \in DOMAIN fsys.links
        THEN IF st.left = 0 THEN Failed(st)
             ELSE LET target == fsys.links[Child(st.at, c)]
                  IN  [at    |-> IF target[1] = Ord("/") THEN Str("/") ELSE st.at,
                       left  |-> st.left - 1,
                       comps |-> split(target, Ord("/")) \o Rest(st.comps, st.i + 1),
                       i     |-> 1]
        ELSE IF Child(st.at, c) \in fsys.dirs \cup fsys.files
        THEN [next EXCEPT !.at = Child(st.at, c)]
        ELSE Failed(st)

\* up to 2^k steps
RECURSIVE WalkSteps(_, _, _)
WalkSteps(fsys, st, k) ==
    IF Done(st) THEN st
    ELSE IF k = 0 THEN WalkStep(fsys, st)
    ELSE WalkSteps(fsys, WalkSteps(fsys, st, k - 1), k - 1)

\* steps until the resolution is done (2^k of them, then 2^(k+1), ...)
RECURSIVE Walk(_, _, _)
Walk(fsys, st, k) ==
    IF Done(st) THEN st ELSE Walk(fsys, WalkSteps(fsys, st, k), k + 1)

\* The resolution of a path; its entry is NoEntry when os.stat() raises
\* OSError or ValueError: the empty path, a path that cannot be encoded, a
\* path of PATH_MAX bytes or more (ENAMETOOLONG), a missing entry (ENOENT),
\* a component under a regular file (ENOTDIR), too many links (ELOOP).
Resolve(fsys, p) ==
    IF p = <<>> \/ ~FsEncodable(p) \/ Utf8Len(p) >= PATH_MAX
    THEN [at |-> NoEntry, left |-> MAXSYMLINKS, comps |-> <<>>, i |-> 1]
    ELSE Walk(fsys,
              [at    |-> IF p[1] = Ord("/") THEN Str("/") ELSE fsys.cwd,
               left  |-> MAXSYMLINKS,
               comps |-> split(p, Ord("/")),
               i     |-> 1],
              0)

Lookup(fsys, p) == Resolve(fsys, p).at

\* os.path.isfile
isfile(fsys, p) == Lookup(fsys, p) \in fsys.files

\* os.path.exists
exists(fsys, p) == Lookup(fsys, p) # NoEntry

\* posixpath.normpath: the body of the loop over the components
NormStep(new_comps, comp, initial_slashes) ==
    LET n == Len(new_comps)
    IN  IF comp \in {<<>>, Str(".")} THEN new_comps
        ELSE IF \/ comp # Str("..")
                \/ (initial_slashes = 0 /\ n = 0)
                \/ (n > 0 /\ new_comps[n] = Str(".."))
        THEN Append(new_comps, comp)
        ELSE IF n > 0 THEN SubSeq(new_comps, 1, n - 1)
        ELSE new_comps

\* posixpath.normpath: the loop over the components lo..hi of comps, those
\* of the first half before those of the second (new_comps is the list
\* built from the components before lo)
RECURSIVE NormComps(_, _, _, _, _)
NormComps(comps, lo, hi, new_comps, initial_slashes) ==
    IF Len(new_comps) >= 0 /\ lo > hi THEN new_comps
    ELSE IF lo = hi THEN NormStep(new_comps, comps[lo], initial_slashes)
    ELSE NormComps(comps, (lo + hi) \div 2 + 1, hi,
                   NormComps(comps, lo, (lo + hi) \div 2, new_comps, initial_slashes),
                   initial_slashes)

\* posixpath.normpath
normpath(path) ==
    IF path = <<>> THEN Str(".")
    ELSE LET initial_slashes ==
                 IF path[1] # Ord("/") THEN 0
                 ELSE IF Prefix(path, 2) = Str("//") /\ Prefix(path, 3) # Str("///")
                      THEN 2 ELSE 1
             comps == split(path, Ord("/"))
             body == join(Str("/"),
                          NormComps(comps, 1, Len(comps), <<>>, initial_slashes))
             res  == IF initial_slashes = 2 THEN Str("//") \o body
                     ELSE IF initial_slashes = 1 THEN Str("/") \o body
                     ELSE body
         IN  IF res = <<>> THEN Str(".") ELSE res

\* posixpath.join(cwd, p) for a relative p
pathjoin(a, p) ==
    IF Len(a) > 0 /\ a[Len(a)] = Ord("/") THEN a \o p ELSE a \o Str("/") \o p

\* os.path.abspath
abspath(fsys, path) ==
    IF Len(path) > 0 /\ path[1] = Ord("/")
    THEN normpath(path)
    ELSE normpath(pathjoin(fsys.cwd, path))

\* os.path.splitext(p)[1]: the extension starts at the last dot of the last
\* component, unless only dots precede it in that component.
splitext_ext(p) ==
    LET sepIndex == RFind(p, Ord("/"))
        dotIndex == RFind(p, Ord("."))
    IN  IF /\ dotIndex > sepIndex
           /\ \E k \in (sepIndex + 1)..(dotIndex - 1) : p[k] # Ord(".")
        THEN Rest(p, dotIndex)
        ELSE <<>>

----------------------------------------------------------------------------
(* urllib.parse.urlparse, as far as the program reads its result: the      *)
(* scheme, the netloc, and the ValueError raised for a netloc with an      *)
(* unbalanced bracket, with a bracketed host that is neither an IPv6 nor   *)
(* an IPvFuture address, or with a character whose NFKC form holds a       *)
(* delimiter.                                                              *)

HexChars == {Ord(SubSeq("0123456789ABCDEFabcdef", i, i)) : i \in 1..22}

IsHex(s) == \A i \in 1..Len(s) : s[i] \in HexChars

\* str.isascii() and str.isdigit() on one character
IsAsciiDigit(c) == c \in 48..57

\* ipaddress: one octet of a dotted IPv4 address
IsOctet(s) ==
    /\ Len(s) \in 1..3
    /\ \A i \in 1..Len(s) : IsAsciiDigit(s[i])
    /\ (s = Str("0") \/ s[1] # Ord("0"))
    /\ DigitsValue(s, 0) <= 255

\* ipaddress.IPv4Address(s) is accepted
IsIPv4(s) ==
    LET octets == split(s, Ord("."))
    IN  Len(octets) = 4 /\ \A i \in 1..4 : IsOctet(octets[i])

\* _ip_int_from_string: the text after the last colon
LastPart(s) == split(s, Ord(":"))[Len(split(s, Ord(":")))]

\* _ip_int_from_string: the parts between the colons, a trailing dotted IPv4
\* address replaced by the two hextets it stands for (their value is not
\* needed here)
IPv6Parts(s) ==
    IF HasChar(LastPart(s), Ord("."))
    THEN SubSeq(split(s, Ord(":")), 1, Len(split(s, Ord(":"))) - 1)
         \o <<Str("0"), Str("0")>>
    ELSE split(s, Ord(":"))

\* the indexes of the empty parts strictly inside, one for each '::'
SkipIndexes(parts) == {i \in 2..(Len(parts) - 1) : parts[i] = <<>>}

\* the checks made when the address has a '::' at part k
SkipOk(parts, k) ==
    LET n  == Len(parts)
        hi == IF parts[1] = <<>> THEN k - 2 ELSE k - 1
        lo == IF parts[n] = <<>> THEN n - k - 1 ELSE n - k
    IN  /\ parts[1] = <<>> => hi = 0
        /\ parts[n] = <<>> => lo = 0
        /\ 8 - (hi + lo) >= 1

IPv6PartsOk(parts) ==
    /\ Len(parts) <= 9
    /\ Cardinality(SkipIndexes(parts)) <= 1
    /\ IF SkipIndexes(parts) # {}
       THEN SkipOk(parts, CHOOSE i \in SkipIndexes(parts) : TRUE)
       ELSE Len(parts) = 8 /\ parts[1] # <<>> /\ parts[Len(parts)] # <<>>
    /\ \A i \in 1..Len(parts) :
          parts[i] # <<>> => (Len(parts[i]) <= 4 /\ IsHex(parts[i]))

\* ipaddress.IPv6Address._ip_int_from_string(s) is accepted
IsIPv6Addr(s) ==
    /\ Len(split(s, Ord(":"))) >= 3
    /\ HasChar(LastPart(s), Ord(".")) => IsIPv4(LastPart(s))
    /\ IPv6PartsOk(IPv6Parts(s))

\* ipaddress.IPv6Address(s) is accepted: an address, then an optional
\* %scope_id
IsIPv6(s) ==
    LET p == Find(s, Ord("%"), 1)
    IN  IF p = 0 THEN IsIPv6Addr(s)
        ELSE /\ Rest(s, p + 1) # <<>>
             /\ ~HasChar(Rest(s, p + 1), Ord("%"))
             /\ IsIPv6Addr(SubSeq(s, 1, p - 1))

\* the regular expression v[a-fA-F0-9]+\..+ of _check_bracketed_host
IsIPvFuture(s) ==
    LET d == Find(s, Ord("."), 1)
    IN  d >= 3 /\ IsHex(SubSeq(s, 2, d - 1)) /\ Len(s) > d /\ ~HasChar(s, 10)

\* netloc.partition('[')[2].partition(']')[0]
BracketedHost(netloc) ==
    LET a == Rest(netloc, Find(netloc, Ord("["), 1) + 1)
        e == Find(a, Ord("]"), 1)
    IN  IF e = 0 THEN a ELSE SubSeq(a, 1, e - 1)

\* _check_bracketed_host(hostname) returns without raising
BracketedHostOk(hostname) ==
    IF Prefix(hostname, 1) = Str("v")
    THEN IsIPvFuture(hostname)
    ELSE IsIPv6(hostname)

\* _checknetloc(netloc) raises: the NFKC form of the netloc, taken without
\* its @ : # ?, holds one of / ? # @ :
ChecknetlocRaises(netloc) == \E i \in 1..Len(netloc) : netloc[i] \in NetlocUnsafe

\* the ValueError cases of urlsplit for this netloc
NetlocRaises(netloc) ==
    \/ HasChar(netloc, Ord("[")) # HasChar(netloc, Ord("]"))
    \/ /\ HasChar(netloc, Ord("[")) /\ HasChar(netloc, Ord("]"))
       /\ ~BracketedHostOk(BracketedHost(netloc))
    \/ ChecknetlocRaises(netloc)

\* _WHATWG_C0_CONTROL_OR_SPACE
C0ControlOrSpace == 0..32

\* _UNSAFE_URL_BYTES_TO_REMOVE: \t \r \n
UnsafeUrlBytes == {9, 13, 10}

AsciiLetters == (65..90) \cup (97..122)

scheme_chars == AsciiLetters \cup (48..57) \cup {Ord("+"), Ord("-"), Ord(".")}

\* url.replace(b, "") for every b in bad
RemoveChars(s, bad) == SelectSeq(s, LAMBDA c : c \notin bad)

\* _splitnetloc(url, 2): index of the first of '/', '?', '#' after the two
\* slashes, the end of the string when there is none
NetlocEnd(url) ==
    LET ds == {Find(url, c, 3) : c \in {Ord("/"), Ord("?"), Ord("#")}} \ {0}
    IN  IF ds = {} THEN Len(url) + 1
        ELSE CHOOSE d \in ds : \A e \in ds : d <= e

urlparse(url0) ==
    LET url1      == RemoveChars(lstripOf(url0, C0ControlOrSpace), UnsafeUrlBytes)
        i         == Find(url1, Ord(":"), 1)
        hasScheme == /\ i > 1
                     /\ url1[1] \in AsciiLetters
                     /\ \A j \in 1..(i - 1) : url1[j] \in scheme_chars
        scheme    == IF hasScheme THEN lower(SubSeq(url1, 1, i - 1)) ELSE <<>>
        url2      == IF hasScheme THEN Rest(url1, i + 1) ELSE url1
        hasNetloc == Prefix(url2, 2) = Str("//")
        netloc    == IF hasNetloc THEN SubSeq(url2, 3, NetlocEnd(url2) - 1) ELSE <<>>
    IN  [raises |-> hasNetloc /\ NetlocRaises(netloc),
         scheme |-> scheme,
         netloc |-> netloc]

----------------------------------------------------------------------------
(* Results of a call: a returned value, a raised ConfigError (kind names   *)
(* the message, what holds the values formatted into it), or another       *)
(* Python exception, which nothing in the program catches.                 *)

Return(v) == [exc |-> "none", kind |-> "", what |-> <<>>, value |-> v]

ConfigError(kind, what) ==
    [exc |-> "ConfigError", kind |-> kind, what |-> what, value |-> <<>>]

Uncaught(exc) == [exc |-> exc, kind |-> "", what |-> <<>>, value |-> <<>>]

\* a dict store that keeps the value of a key already present
Put_keepFirst(d, k, v) ==
    [x \in (DOMAIN d) \cup {k} |-> IF x \in DOMAIN d THEN d[x] ELSE v]

\* d[k] = v on a dict
Put(d, k, v) == [x \in (DOMAIN d) \cup {k} |-> IF x = k THEN v ELSE d[x]]

EmptyDict == <<>>

----------------------------------------------------------------------------
(* read_csv_config.  A file is [openExc, rows, badAt, badExc]: openExc is   *)
(* the OSError open() raises for it ("none" when it opens), rows are the   *)
(* rows csv.reader yields, and badAt, when not 0, is the index of the row  *)
(* at which the reader raises badExc instead of yielding it: csv.Error for *)
(* text csv cannot parse, UnicodeDecodeError for bytes that are not UTF-8, *)
(* OSError for a read that fails.                                          *)

\* the exception leaving the try block of lines 30-60: csv.Error becomes a
\* ConfigError (line 59), any other exception passes through
ReaderRaises(file) ==
    IF file.badExc = "csv.Error" THEN ConfigError("CsvError", <<>>)
    ELSE Uncaught(file.badExc)

\* The loop `for row in reader` from row i on.
RECURSIVE ReadRows(_, _, _)
ReadRows(file, i, cfg) ==
    IF i = file.badAt THEN ReaderRaises(file)
    ELSE IF i > Len(file.rows) THEN Return(cfg)
    ELSE LET row == file.rows[i]
         IN  IF row = <<>> THEN ReadRows(file, i + 1, cfg)
             ELSE IF Len(row) < 2 THEN ConfigError("MalformedRow", row)
             ELSE LET key == strip(row[1])
                      val == strip(row[2])
                  IN  IF key = <<>> THEN ConfigError("EmptyKey", row)
                      ELSE ReadRows(file, i + 1, Put(cfg, key, val))

\* The first row: a header, or the first pair.
ReadHeader(file) ==
    IF file.badAt = 1 THEN ReaderRaises(file)
    ELSE IF file.rows = <<>> THEN ConfigError("Empty", <<>>)
    ELSE LET header == file.rows[1]
         IN  IF Len(header) >= 2 /\ lower(strip(header[1])) = Str("key")
             THEN Return(EmptyDict)
             ELSE IF Len(header) = 0 THEN Uncaught("IndexError")
             ELSE LET key == strip(header[1])
                      val == IF Len(header) >= 2 THEN strip(header[2]) ELSE <<>>
                  IN  Return(Put(EmptyDict, key, val))

read_csv_config(fsys, path, file) ==
    IF ~isfile(fsys, path) THEN ConfigError("NotFound", <<path>>)
    ELSE IF file.openExc # "none" THEN Uncaught(file.openExc)
    ELSE LET h == ReadHeader(file)
         IN  IF h.exc # "none" THEN h ELSE ReadRows(file, 2, h.value)

----------------------------------------------------------------------------
(* validate_and_normalize                                                  *)

REQUIRED_KEYS ==
    {Str("package_name"), Str("repo_url_or_path"), Str("test_repo_mode"),
     Str("output_image"), Str("ascii_mode"), Str("max_depth")}

VALID_TEST_REPO_MODES == {Str("none"), Str("local"), Str("clone")}

VALID_ASCII_MODES == {Str("none"), Str("tree")}

\* the schemes of line 83
UrlSchemes == {Str("http"), Str("https"), Str("git")}

\* the values of repo_type
TypeUrl == Str("url")
TypeLocal == Str("local")
TypeUnknown == Str("unknown")

\* classification that tries the file system before the URL form
ClassifyRepo_pathFirst(fsys, repo) ==
    LET parsed == urlparse(repo)
    IN  IF exists(fsys, repo)
        THEN [repo_url_or_path |-> abspath(fsys, repo), repo_type |-> TypeLocal]
        ELSE IF parsed.scheme \in UrlSchemes /\ parsed.netloc # <<>>
        THEN [repo_url_or_path |-> repo, repo_type |-> TypeUrl]
        ELSE [repo_url_or_path |-> repo, repo_type |-> TypeUnknown]

\* The classification of the stripped repo_url_or_path: the value stored
\* and the repo_type.
ClassifyRepo(fsys, repo) ==
    LET parsed == urlparse(repo)
    IN  IF parsed.scheme \in UrlSchemes /\ parsed.netloc # <<>>
        THEN [repo_url_or_path |-> repo, repo_type |-> TypeUrl]
        ELSE IF exists(fsys, repo)
        THEN [repo_url_or_path |-> abspath(fsys, repo), repo_type |-> TypeLocal]
        ELSE [repo_url_or_path |-> repo, repo_type |-> TypeUnknown]

\* The dict `out` as it is when the function returns.
NormalizedConfig(pkg, cls, mode, out_img, ascii_mode, max_depth) ==
    (Str("package_name") :> pkg)
    @@ (Str("repo_url_or_path") :> cls.repo_url_or_path)
    @@ (Str("repo_type") :> cls.repo_type)
    @@ (Str("test_repo_mode") :> mode)
    @@ (Str("output_image") :> out_img)
    @@ (Str("ascii_mode") :> ascii_mode)
    @@ (Str("max_depth") :> max_depth)

\* the check of line 102 made for the wrong mode
LocalModeWithoutPath_wrongMode(mode, repo_type) ==
    mode = Str("clone") /\ repo_type = TypeUnknown

\* line 102: local test mode with a repository that was not found
LocalModeWithoutPath(mode, repo_type) ==
    mode = Str("local") /\ repo_type = TypeUnknown

validate_and_normalize(fsys, cfg) ==
    LET missing    == REQUIRED_KEYS \ DOMAIN cfg
        pkg        == strip(cfg[Str("package_name")])
        repo       == strip(cfg[Str("repo_url_or_path")])
        cls        == ClassifyRepo(fsys, repo)
        mode       == lower(strip(cfg[Str("test_repo_mode")]))
        out_img    == strip(cfg[Str("output_image")])
        ascii_mode == lower(strip(cfg[Str("ascii_mode")]))
        max_depth_raw == strip(cfg[Str("max_depth")])
    IN  IF missing # {} THEN ConfigError("MissingKeys", sorted(missing))
        ELSE IF pkg = <<>> THEN ConfigError("EmptyField", <<Str("package_name")>>)
        ELSE IF repo = <<>>
             THEN ConfigError("EmptyField", <<Str("repo_url_or_path")>>)
        ELSE IF urlparse(repo).raises THEN Uncaught("ValueError")
        ELSE IF mode \notin VALID_TEST_REPO_MODES
             THEN ConfigError("InvalidEnum", <<Str("test_repo_mode")>>)
        ELSE IF LocalModeWithoutPath(mode, cls.repo_type)
             THEN ConfigError("InconsistentMode", <<>>)
        ELSE IF out_img = <<>>
             THEN ConfigError("EmptyField", <<Str("output_image")>>)
        ELSE IF splitext_ext(out_img) = <<>>
             THEN ConfigError("MissingExtension", <<>>)
        ELSE IF ascii_mode \notin VALID_ASCII_MODES
             THEN ConfigError("InvalidEnum", <<Str("ascii_mode")>>)
        ELSE IF max_depth_raw = <<>>
             THEN ConfigError("EmptyField", <<Str("max_depth")>>)
        ELSE IF ~IntParses(max_depth_raw) THEN ConfigError("NotAnInteger", <<>>)
        ELSE IF IntValue(max_depth_raw) < 0 THEN ConfigError("NegativeValue", <<>>)
        ELSE Return(NormalizedConfig(pkg, cls, mode, out_img, ascii_mode,
                                     IntValue(max_depth_raw)))

----------------------------------------------------------------------------
(* print_kv: the lines written to standard output                          *)

\* the text of line 137
Banner ==
    <<1055, 1072, 1088, 1072, 1084, 1077, 1090, 1088, 1099, 32, 1082,
      1086, 1085, 1092, 1080, 1075, 1091, 1088, 1072, 1094, 1080, 1080,
      32, 40, 1082, 1083, 1102, 1095, 61, 1079, 1085, 1072, 1095, 1077,
      1085, 1080, 1077, 41, 58>>

ValueText(k, v) == IF k = Str("max_depth") THEN IntToStr(v) ELSE v

print_kv(cfg_norm) ==
    LET ks == sorted(DOMAIN cfg_norm)
    IN  <<Banner>>
        \o [i \in 1..Len(ks) |->
               ks[i] \o Str("=") \o ValueText(ks[i], cfg_norm[ks[i]])]

----------------------------------------------------------------------------
(* main: the state of one run                                              *)

VARIABLES
    fs,         \* the file system (never written by the program)
    path,       \* args.config
    file,       \* the content of the file at path, were it opened
    pc,         \* "start", "loaded", "validated", "exit"
    cfg,        \* the Raw Config returned by read_csv_config
    cfg_norm,   \* the Normalized Config returned by validate_and_normalize
    stdout,     \* the lines printed to standard output
    stderr,     \* the exception reported on standard error, if any
    exit_code   \* the exit status of the process, Running before it ends

vars == <<fs, path, file, pc, cfg, cfg_norm, stdout, stderr, exit_code>>

Running == 0 - 1

Silent == Return(EmptyDict)

\* lines 147-151: cfg = read_csv_config(args.config), ConfigError -> exit 2
MainLoad ==
    /\ pc = "start"
    /\ LET r == read_csv_config(fs, path, file)
       IN  IF r.exc = "none"
           THEN /\ cfg' = r.value
                /\ pc' = "loaded"
                /\ UNCHANGED <<stderr, exit_code>>
           ELSE /\ stderr' = r
                /\ exit_code' = IF r.exc = "ConfigError" THEN 2 ELSE 1
                /\ pc' = "exit"
                /\ UNCHANGED cfg
    /\ UNCHANGED <<fs, path, file, cfg_norm, stdout>>

\* lines 153-157: cfg_norm = validate_and_normalize(cfg), ConfigError -> exit 3
MainValidate ==
    /\ pc = "loaded"
    /\ LET r == validate_and_normalize(fs, cfg)
       IN  IF r.exc = "none"
           THEN /\ cfg_norm' = r.value
                /\ pc' = "validated"
                /\ UNCHANGED <<stderr, exit_code>>
           ELSE /\ stderr' = r
                /\ exit_code' = IF r.exc = "ConfigError" THEN 3 ELSE 1
                /\ pc' = "exit"
                /\ UNCHANGED cfg_norm
    /\ UNCHANGED <<fs, path, file, cfg, stdout>>

\* line 160 and the return of main: print_kv(cfg_norm), exit status 0
MainPrint ==
    /\ pc = "validated"
    /\ stdout' = print_kv(cfg_norm)
    /\ exit_code' = 0
    /\ pc' = "exit"
    /\ UNCHANGED <<fs, path, file, cfg, cfg_norm, stderr>>

Next == MainLoad \/ MainValidate \/ MainPrint

----------------------------------------------------------------------------
(* The inputs explored                                                     *)

MaxRows == 3

Fs1 ==
    [cwd   |-> Str("/w"),
     dirs  |-> {Str("/"), Str("/tmp"), Str("/w"), Str("/w/http:"), Str("/w/repo")},
     files |-> {Str("/w/conf.csv"), Str("/w/http:/h"), Str("/w/repo/conf.csv")},
     links |-> (Str("/w/lnk") :> Str("/tmp")) @@ (Str("/w/rl") :> Str("repo"))
               @@ (Str("/w/fl") :> Str("conf.csv")) @@ (Str("/w/self") :> Str("."))
               @@ (Str("/w/dang") :> Str("nowhere")) @@ (Str("/w/loop") :> Str("loop"))]

Fs2 == [Fs1 EXCEPT !.cwd = Str("/w/repo")]

FileSystems == {Fs1, Fs2}

Paths ==
    {Str("conf.csv"), Str("missing.csv"), Str("repo"), Str("/w/conf.csv"),
     Str("../conf.csv"), Str("fl"), Str("lnk/../w/conf.csv")}

\* n slashes
Slashes(n) == [i \in 1..n |-> Ord("/")]

\* the text "self/" n times
SelfTimes(n) == [i \in 1..(5 * n) |-> Str("self/")[((i - 1) % 5) + 1]]

\* paths of PATH_MAX - 1 and of PATH_MAX bytes to the file /w/conf.csv, paths
\* through MAXSYMLINKS and through MAXSYMLINKS + 1 links to it, a dangling
\* link, a link to itself, a file and a link to a file followed by a slash
EdgePaths ==
    {Str("/w") \o Slashes(4085) \o Str("conf.csv"),
     Str("/w") \o Slashes(4086) \o Str("conf.csv"),
     SelfTimes(39) \o Str("fl"), SelfTimes(40) \o Str("fl"),
     Str("dang"), Str("loop"), Str("conf.csv/"), Str("fl/")}

\* a file that opens and is read without error
File(rows) == [openExc |-> "none", rows |-> rows, badAt |-> 0, badExc |-> "csv.Error"]

OpenExceptions == {"PermissionError"}

\* KELVIN SIGN, whose lower-case form is k
Kelvin == <<8490>>

\* NO-BREAK SPACE, EM SPACE, IDEOGRAPHIC SPACE, LINE TABULATION
Nbsp == <<160>>
EmSpace == <<8195>>
IdeographicSpace == <<12288>>
VT == <<11>>

RowPool ==
    { <<>>,
      <<Str("key"), Str("value")>>,
      <<Nbsp \o Kelvin \o Str("EY "), Str("v")>>,
      <<Str("key")>>,
      <<Str("a"), Str("1")>>,
      <<EmSpace \o Str("a "), Str("2") \o IdeographicSpace>>,
      <<Str("b"), Str("3")>>,
      <<Nbsp \o VT, Str("x")>>,
      <<Str("a")>>,
      <<Str("max_depth"), Str("3"), Str("x")>> }

ReaderExceptions == {"csv.Error", "UnicodeDecodeError", "OSError"}

SeqsUpTo(S, n) == UNION {[1..m -> S] : m \in 0..n}

\* marks a key that a Raw Config does not have
Absent == <<0 - 1>>

\* the dict holding, under Str(f), the fields f of the record vals whose
\* value is not Absent
MkCfg(vals) ==
    LET present == {f \in DOMAIN vals : vals[f] # Absent}
    IN  [k \in {Str(f) : f \in present} |->
            vals[CHOOSE f \in present : Str(f) = k]]

\* Raw Configs as read_csv_config can return them
FileConfigs ==
    { MkCfg([package_name |-> p, repo_url_or_path |-> r, test_repo_mode |-> m,
             output_image |-> o, ascii_mode |-> a, max_depth |-> d]) :
        p \in {Str("foo"), <<>>},
        r \in {Str("/tmp"), Str("http://h"), Str("nope"), Str("http://[x]")},
        m \in {Str("local"), Str("Clone"), Str("bad")},
        o \in {Str("out.png"), Str("outfile")},
        a \in {Str("tree"), Str("x")},
        d \in {Absent, Str("3"), Str("-1"), Str("x")} }

\* a file with one row per key of c, after a header row when hdr
ConfigFile(c, hdr) ==
    LET ks == sorted(DOMAIN c)
    IN  (IF hdr THEN << <<Str("key"), Str("value")>> >> ELSE <<>>)
        \o [i \in 1..Len(ks) |-> <<ks[i], c[ks[i]]>>]

\* repository references through links, to a dangling link and to a link
\* to itself, through MAXSYMLINKS and MAXSYMLINKS + 1 links, of PATH_MAX - 1
\* and of PATH_MAX bytes, and with two leading slashes
EdgeRepos ==
    {Str("lnk/../w"), Str("rl/conf.csv"), Str("../w/lnk/"), Str("dang"), Str("loop"),
     SelfTimes(40) \o Str("repo"), SelfTimes(41) \o Str("repo"),
     Str("/tmp") \o Slashes(4091), Str("/tmp") \o Slashes(4092), Str("//tmp/..")}

EdgeConfigs ==
    { MkCfg([package_name |-> Str("foo"), repo_url_or_path |-> r,
             test_repo_mode |-> m, output_image |-> o, ascii_mode |-> Str("tree"),
             max_depth |-> Str("3")]) :
        r \in EdgeRepos,
        m \in {Str("local"), Str("clone")},
        o \in {Str("out.png"), Str("x.")} }

\* Raw Configs handed to validate_and_normalize directly
RawConfigs ==
    { MkCfg([package_name |-> p, repo_url_or_path |-> r, test_repo_mode |-> m,
             output_image |-> o, ascii_mode |-> a, max_depth |-> d, color |-> e]) :
        p \in {Absent, Str(" foo") \o VT, <<31>> \o Nbsp},
        r \in {Absent, Str("/tmp"), Str(" repo/../http:/h ") \o EmSpace,
               Str("http://h"), Str("HTTP://[::1]/x"), Str("nope"),
               Str("http://[::1"), Str("//[x]"), Str("http://a") \o <<8448>>,
               <<>>},
        m \in {Absent, IdeographicSpace \o Str("Local "), Str("clone"), Str("none"),
               <<201>>},
        o \in {Absent, Str("out.png"), Str(" d.d/x. "), Str("outfile"), <<>>,
               Str(".png")},
        a \in {Absent, Str(" NONE"), Str("tree") \o <<931>>},
        d \in {Absent, Nbsp \o <<1633>> \o Str("_0 "), Str("+0"), Str("-1"),
               Str("x"), <<>>},
        e \in {Absent, Str("red")} }

InitRun ==
    /\ pc = "start"
    /\ cfg = EmptyDict
    /\ cfg_norm = EmptyDict
    /\ stdout = <<>>
    /\ stderr = Silent
    /\ exit_code = Running

\* a run of main on a file
Init ==
    /\ InitRun
    /\ \/ /\ fs \in FileSystems
          /\ path \in Paths
          /\ \E rows \in SeqsUpTo(RowPool, 1) : file = File(rows)
       \/ /\ fs \in FileSystems
          /\ path \in EdgePaths
          /\ file = File(<< <<Str("a"), Str("1")>>, <<Str("a "), Str("2")>> >>)
       \/ /\ fs = Fs1
          /\ path \in {Str("conf.csv"), Str("missing.csv")}
          /\ \E rows \in SeqsUpTo(RowPool, 1), e \in OpenExceptions :
                file = [File(rows) EXCEPT !.openExc = e]
       \/ /\ fs = Fs1
          /\ path = Str("conf.csv")
          /\ \E rows \in SeqsUpTo(RowPool, MaxRows) :
                \E b \in 0..(Len(rows) + 1), e \in ReaderExceptions :
                   /\ b = 0 => e = "csv.Error"
                   /\ file = [File(rows) EXCEPT !.badAt = b, !.badExc = e]
       \/ /\ fs = Fs1
          /\ path = Str("conf.csv")
          /\ \E c \in FileConfigs, hdr \in BOOLEAN : file = File(ConfigFile(c, hdr))

Spec == Init /\ [][Next]_vars

\* validate_and_normalize called on a Raw Config, then printed as main does
InitValidate ==
    /\ fs \in FileSystems
    /\ path = Str("conf.csv")
    /\ file = File(<<>>)
    /\ pc = "loaded"
    /\ cfg \in RawConfigs \cup EdgeConfigs
    /\ cfg_norm = EmptyDict
    /\ stdout = <<>>
    /\ stderr = Silent
    /\ exit_code = Running

NextValidate == MainValidate \/ MainPrint

SpecValidate == InitValidate /\ [][NextValidate]_vars

----------------------------------------------------------------------------
(* Vocabulary of the properties                                            *)

\* read_csv_config raised (ConfigError, exit 2, or an uncaught exception)
LoadFailed ==
    /\ pc = "exit"
    /\ \/ exit_code = 2
       \/ stderr.exc \in {"IndexError"} \cup OpenExceptions \cup ReaderExceptions

\* read_csv_config returned cfg
LoadReturned == pc # "start" /\ ~LoadFailed

\* what read_csv_config did in this run
LoadOutcome == IF LoadFailed THEN stderr ELSE Return(cfg)

\* validate_and_normalize returned cfg_norm
ValidateReturned == pc = "validated" \/ (pc = "exit" /\ exit_code = 0)

\* validate_and_normalize raised
ValidateFailed == pc = "exit" /\ exit_code # 0 /\ ~LoadFailed

IsHeaderRow(row) == Len(row) >= 1 /\ lower(strip(row[1])) = Str("key")

OnlyNonEmptyRows(rows) == SelectSeq(rows, LAMBDA r : r # <<>>)

\* a file that opens and is read without error: rows of at least two cells,
\* every pair after the first row with a key
WellFormed(f) ==
    /\ f.openExc = "none"
    /\ f.badAt = 0
    /\ f.rows # <<>>
    /\ \A i \in 1..Len(f.rows) : Len(f.rows[i]) >= 2
    /\ \A i \in 2..Len(f.rows) : strip(f.rows[i][1]) # <<>>

DataRows(f) == IF IsHeaderRow(f.rows[1]) THEN Tail(f.rows) ELSE f.rows

\* index of the last data row whose trimmed first cell is k
LastRowOf(data, k) ==
    CHOOSE i \in 1..Len(data) :
        /\ strip(data[i][1]) = k
        /\ \A j \in (i + 1)..Len(data) : strip(data[j][1]) # k

----------------------------------------------------------------------------
(* C1: every run of main ends with exit code 2 (the file could not be      *)
(* loaded), 3 (the loaded content was rejected) or 0 (the normalized       *)
(* config was printed); no file content ends the run any other way.        *)
C1_ThreeOutcomes ==
    pc = "exit" =>
        \/ exit_code = 2 /\ stderr.exc = "ConfigError" /\ stdout = <<>>
        \/ exit_code = 3 /\ stderr.exc = "ConfigError" /\ stdout = <<>>
        \/ exit_code = 0 /\ stderr = Silent /\ stdout = print_kv(cfg_norm)

----------------------------------------------------------------------------
(* C7: for a well-formed file of two-column rows, with or without a header *)
(* row, at a path that os.path.isfile accepts and that opens and is read   *)
(* without error, read_csv_config returns a mapping whose key set is the   *)
(* set of trimmed first cells of the data rows (the header gives no key)   *)
(* and whose value for a key is the trimmed second cell of the last row    *)
(* with that key.                                                          *)
C7_LastOccurrenceWins ==
    (pc # "start" /\ isfile(fs, path) /\ WellFormed(file)) =>
        LET data == DataRows(file)
        IN  /\ LoadReturned
            /\ DOMAIN cfg = {strip(data[i][1]) : i \in 1..Len(data)}
            /\ \A k \in DOMAIN cfg : cfg[k] = strip(data[LastRowOf(data, k)][2])

\* a header-less first pair overwritten by a later row with the same key
C7_Witness ==
    /\ pc = "loaded"
    /\ WellFormed(file)
    /\ ~IsHeaderRow(file.rows[1])
    /\ \E i \in 2..Len(file.rows) :
          /\ strip(file.rows[i][1]) = strip(file.rows[1][1])
          /\ strip(file.rows[i][2]) # strip(file.rows[1][2])
          /\ cfg[strip(file.rows[1][1])] = strip(file.rows[i][2])

----------------------------------------------------------------------------
(* C8: a data row with an empty key, the header-less first row included,   *)
(* makes read_csv_config fail with the empty-key error, so no returned     *)
(* mapping has the empty string as a key.                                  *)
C8_EmptyKeyRejected ==
    /\ LoadReturned => <<>> \notin DOMAIN cfg
    /\ (/\ pc # "start" /\ isfile(fs, path)
        /\ file.openExc = "none" /\ file.badAt = 0
        /\ file.rows # <<>>
        /\ Len(file.rows[1]) >= 1 /\ strip(file.rows[1][1]) = <<>>)
       => (LoadFailed /\ stderr.kind = "EmptyKey")

----------------------------------------------------------------------------
(* C9: rows without columns are skipped wherever they are: removing them   *)
(* from a file that keeps at least one other row does not change what      *)
(* read_csv_config does, and the empty-file error is raised only for a     *)
(* file without rows.                                                      *)
C9_EmptyRowsSkipped ==
    (pc # "start" /\ isfile(fs, path) /\ file.openExc = "none" /\ file.badAt = 0) =>
        /\ OnlyNonEmptyRows(file.rows) # <<>> =>
              LoadOutcome =
                  read_csv_config(fs, path,
                      [file EXCEPT !.rows = OnlyNonEmptyRows(file.rows)])
        /\ (LoadFailed /\ stderr.kind = "Empty") => file.rows = <<>>

----------------------------------------------------------------------------
(* C10: read_csv_config does the same as the simplified loader that skips  *)
(* row 1 when its first cell, trimmed and lowercased, is "key" and reads   *)
(* it as a pair otherwise.                                                 *)

SimplifiedHeader(f) ==
    IF f.badAt = 1 THEN ReaderRaises(f)
    ELSE IF f.rows = <<>> THEN ConfigError("Empty", <<>>)
    ELSE LET row == f.rows[1]
         IN  IF Len(row) = 0 THEN Uncaught("IndexError")
             ELSE IF lower(strip(row[1])) = Str("key") THEN Return(EmptyDict)
             ELSE Return(Put(EmptyDict, strip(row[1]),
                             IF Len(row) >= 2 THEN strip(row[2]) ELSE <<>>))

SimplifiedLoader(fsys, p, f) ==
    IF ~isfile(fsys, p) THEN ConfigError("NotFound", <<p>>)
    ELSE IF f.openExc # "none" THEN Uncaught(f.openExc)
    ELSE LET h == SimplifiedHeader(f)
         IN  IF h.exc # "none" THEN h ELSE ReadRows(f, 2, h.value)

C10_SimplifiedLoader ==
    pc # "start" => LoadOutcome = SimplifiedLoader(fs, path, file)

----------------------------------------------------------------------------
(* The rules of validate_and_normalize, each stated on the Raw Config      *)

HasAllKeys(c) == REQUIRED_KEYS \subseteq DOMAIN c

\* a URL: scheme http, https or git and a non-empty authority
IsUrl(repo) ==
    urlparse(repo).scheme \in UrlSchemes /\ urlparse(repo).netloc # <<>>

\* the repository reference is neither a URL nor an existing path
IsUnknownRepo(fsys, repo) ==
    ~urlparse(repo).raises /\ ~IsUrl(repo) /\ ~exists(fsys, repo)

\* the last path component has a dot with a character other than a dot
\* before it
HasExtension(p) ==
    \E i \in 1..Len(p) :
        /\ p[i] = Ord(".")
        /\ \A j \in i..Len(p) : p[j] # Ord("/")
        /\ \E j \in 1..(i - 1) :
              /\ p[j] # Ord(".")
              /\ \A m \in j..i : p[m] # Ord("/")

RuleNames ==
    << "MissingKeys", "PackageNameEmpty", "RepoEmpty", "ModeInvalid",
       "ModeInconsistent", "OutputEmpty", "OutputNoExtension", "AsciiInvalid",
       "DepthEmpty", "DepthNotInteger", "DepthNegative" >>

\* rule number n of the fixed order is violated by the Raw Config c
Violates(fsys, c, n) ==
    IF ~HasAllKeys(c) THEN n = 1
    ELSE LET repo  == strip(c[Str("repo_url_or_path")])
             mode  == lower(strip(c[Str("test_repo_mode")]))
             img   == strip(c[Str("output_image")])
             depth == strip(c[Str("max_depth")])
         IN  CASE n = 1  -> FALSE
               [] n = 2  -> strip(c[Str("package_name")]) = <<>>
               [] n = 3  -> repo = <<>>
               [] n = 4  -> mode \notin {Str("none"), Str("local"), Str("clone")}
               [] n = 5  -> mode = Str("local") /\ repo # <<>> /\ IsUnknownRepo(fsys, repo)
               [] n = 6  -> img = <<>>
               [] n = 7  -> img # <<>> /\ ~HasExtension(img)
               [] n = 8  -> lower(strip(c[Str("ascii_mode")]))
                               \notin {Str("none"), Str("tree")}
               [] n = 9  -> depth = <<>>
               [] n = 10 -> depth # <<>> /\ ~IntParses(depth)
               [] n = 11 -> IntParses(depth) /\ IntValue(depth) < 0

ViolatesAny(fsys, c) == \E n \in 1..Len(RuleNames) : Violates(fsys, c, n)

EarliestViolated(fsys, c) ==
    CHOOSE n \in 1..Len(RuleNames) :
        Violates(fsys, c, n) /\ \A m \in 1..(n - 1) : ~Violates(fsys, c, m)

\* the ConfigError raised for rule n
ErrorOfRule(c, n) ==
    CASE n = 1  -> ConfigError("MissingKeys", sorted(REQUIRED_KEYS \ DOMAIN c))
      [] n = 2  -> ConfigError("EmptyField", <<Str("package_name")>>)
      [] n = 3  -> ConfigError("EmptyField", <<Str("repo_url_or_path")>>)
      [] n = 4  -> ConfigError("InvalidEnum", <<Str("test_repo_mode")>>)
      [] n = 5  -> ConfigError("InconsistentMode", <<>>)
      [] n = 6  -> ConfigError("EmptyField", <<Str("output_image")>>)
      [] n = 7  -> ConfigError("MissingExtension", <<>>)
      [] n = 8  -> ConfigError("InvalidEnum", <<Str("ascii_mode")>>)
      [] n = 9  -> ConfigError("EmptyField", <<Str("max_depth")>>)
      [] n = 10 -> ConfigError("NotAnInteger", <<>>)
      [] n = 11 -> ConfigError("NegativeValue", <<>>)

----------------------------------------------------------------------------
(* C2: validate_and_normalize is fail-fast in the fixed order of the       *)
(* rules: for a Raw Config that violates a rule, the error raised is the   *)
(* one of the earliest violated rule.                                      *)
C2_EarliestRuleReported ==
    (pc # "loaded" /\ ViolatesAny(fs, cfg)) =>
        (ValidateFailed /\ stderr = ErrorOfRule(cfg, EarliestViolated(fs, cfg)))

----------------------------------------------------------------------------
(* C3: a Normalized Config is never partially valid: a returned mapping    *)
(* has exactly the seven keys with every field in its range (package_name  *)
(* non-empty, repo_type url, local or unknown, test_repo_mode none, local  *)
(* or clone, output_image with a non-empty extension, which is at least    *)
(* one character after the last dot of the file name, ascii_mode none or   *)
(* tree, max_depth an integer >= 0), and when a rule fails no mapping is   *)
(* returned and nothing is printed.                                        *)

\* the file name (the last path component) has a last dot with a character
\* other than a dot before it and at least one character after it
HasNonEmptyExtension(p) ==
    \E i \in 1..(Len(p) - 1) :
        /\ p[i] = Ord(".")
        /\ \A j \in (i + 1)..Len(p) : p[j] \notin {Ord("."), Ord("/")}
        /\ \E j \in 1..(i - 1) :
              /\ p[j] # Ord(".")
              /\ \A m \in j..i : p[m] # Ord("/")

C3_NeverPartiallyValid ==
    /\ ValidateReturned =>
          /\ DOMAIN cfg_norm = REQUIRED_KEYS \cup {Str("repo_type")}
          /\ cfg_norm[Str("package_name")] # <<>>
          /\ cfg_norm[Str("repo_type")] \in {Str("url"), Str("local"), Str("unknown")}
          /\ cfg_norm[Str("test_repo_mode")] \in {Str("none"), Str("local"), Str("clone")}
          /\ HasNonEmptyExtension(cfg_norm[Str("output_image")])
          /\ cfg_norm[Str("ascii_mode")] \in {Str("none"), Str("tree")}
          /\ cfg_norm[Str("max_depth")] \in Nat
          /\ ~ViolatesAny(fs, cfg)
    /\ (pc # "loaded" /\ ViolatesAny(fs, cfg)) =>
          (ValidateFailed /\ cfg_norm = EmptyDict /\ stdout = <<>>)

----------------------------------------------------------------------------
(* C4: a Raw Config lacking a required key fails with the missing-keys     *)
(* error whatever its other values, and the error lists exactly            *)
(* REQUIRED_KEYS minus the present keys, in sorted order.                  *)
C4_MissingKeysSorted ==
    (pc # "loaded" /\ ~HasAllKeys(cfg)) =>
        /\ ValidateFailed
        /\ stderr.exc = "ConfigError" /\ stderr.kind = "MissingKeys"
        /\ {stderr.what[i] : i \in 1..Len(stderr.what)} = REQUIRED_KEYS \ DOMAIN cfg
        /\ \A i, j \in 1..Len(stderr.what) :
              i < j => StrLess(stderr.what[i], stderr.what[j])

\* several keys missing, an extra key present, a present key with a bad value
C4_Witness ==
    /\ pc = "exit" /\ stderr.kind = "MissingKeys"
    /\ Len(stderr.what) >= 2
    /\ Str("color") \in DOMAIN cfg
    /\ Str("package_name") \in DOMAIN cfg
    /\ strip(cfg[Str("package_name")]) = <<>>

----------------------------------------------------------------------------
FollowsLink(fsys, p) == Resolve(fsys, p).left < MAXSYMLINKS

\* no component of the path is "." or ".."
NoDotComponents(p) ==
    \A k \in 1..Len(split(p, Ord("/"))) :
        split(p, Ord("/"))[k] \notin {Str("."), Str("..")}

----------------------------------------------------------------------------
(* C6: local test mode requires a real local path: no returned config has  *)
(* test_repo_mode local with repo_type unknown; with mode local and an     *)
(* unknown repository the inconsistent-mode error is raised when the       *)
(* earlier rules pass; modes none and clone accept an unknown repository.  *)
C6_LocalModeNeedsPath ==
    /\ ValidateReturned =>
          ~(/\ cfg_norm[Str("test_repo_mode")] = Str("local")
            /\ cfg_norm[Str("repo_type")] = Str("unknown"))
    /\ (/\ pc # "loaded" /\ HasAllKeys(cfg)
        /\ strip(cfg[Str("package_name")]) # <<>>
        /\ strip(cfg[Str("repo_url_or_path")]) # <<>>
        /\ IsUnknownRepo(fs, strip(cfg[Str("repo_url_or_path")])))
       => LET mode == lower(strip(cfg[Str("test_repo_mode")]))
          IN  /\ mode = Str("local") =>
                    (ValidateFailed /\ stderr = ConfigError("InconsistentMode", <<>>))
              /\ mode \in {Str("none"), Str("clone")} =>
                    /\ stderr.kind # "InconsistentMode"
                    /\ ~ViolatesAny(fs, cfg) =>
                          (ValidateReturned /\ cfg_norm[Str("repo_type")] = Str("unknown"))

\* mode clone with a repository that is not found is returned as unknown
C6_Witness ==
    /\ ValidateReturned
    /\ cfg_norm[Str("test_repo_mode")] = Str("clone")
    /\ cfg_norm[Str("repo_type")] = Str("unknown")
    /\ cfg_norm[Str("repo_url_or_path")] = Str("nope")

====
